---- MODULE Spec2Model ----
(***************************************************************************)
(* A model of ResumePlus: the ResumeService request/response pipeline      *)
(* (src/src/services/resumeService.ts) and the ResumeCheckerApp component  *)
(* that drives it (src/unnamed/part_000).                                  *)
(*                                                                         *)
(* Texts are sequences of one-character strings, so that the regular       *)
(* expression replacements, trim, split and JSON.parse act on characters.  *)
(***************************************************************************)
EXTENDS Integers, Sequences, FiniteSets, TLC

(***************************************************************************)
(* Bounds of the model.                                                    *)
(***************************************************************************)
\* number of service calls (call slots) followed in one behaviour
MaxCalls == 2
\* longest document, in bytes, whose content the encoder is run on
MaxDocLen == 3

(***************************************************************************)
(* Characters and text helpers.                                            *)
(***************************************************************************)
\* the characters String.prototype.trim and JSON.parse treat as white space
Whitespace == {" ", "\n", "\t", "\r"}

Digits == <<"0", "1", "2", "3", "4", "5", "6", "7", "8", "9">>

IsDigit(ch) == \E d \in 1..10 : Digits[d] = ch

DigitVal(ch) == (CHOOSE d \in 1..10 : Digits[d] = ch) - 1

\* the two patterns of the replace calls of processResponse
\* the grave accent U+0060, which a TLA+ string cannot contain: the one
\* character of the model that is written as a name
Backtick == "U+0060"

FenceJson == <<Backtick, Backtick, Backtick, "j", "s", "o", "n">>

Fence == <<Backtick, Backtick, Backtick>>

\* does pat occur in s at position i
MatchAt(s, i, pat) ==
    /\ i + Len(pat) - 1 <= Len(s)
    /\ \A k \in 1..Len(pat) : s[i + k - 1] = pat[k]

\* the positions from i on where pat occurs
MatchesFrom(s, i, pat) == {j \in i..Len(s) : MatchAt(s, j, pat)}

RECURSIVE RemoveFrom(_, _, _)
\* one left-to-right pass deleting the non-overlapping occurrences of pat:
\* copy up to the leftmost occurrence, skip it, go on after it
RemoveFrom(s, i, pat) ==
    IF MatchesFrom(s, i, pat) = {} THEN SubSeq(s, i, Len(s))
    ELSE LET j == CHOOSE m \in MatchesFrom(s, i, pat) :
                      \A m2 \in MatchesFrom(s, i, pat) : m <= m2
         IN SubSeq(s, i, j - 1) \o RemoveFrom(s, j + Len(pat), pat)

\* String.prototype.replace(/pat/g, '')
ReplaceAll(s, pat) == RemoveFrom(s, 1, pat)

RECURSIVE TrimLeft(_)
TrimLeft(s) ==
    IF s # <<>> /\ Head(s) \in Whitespace THEN TrimLeft(Tail(s)) ELSE s

RECURSIVE TrimRight(_)
TrimRight(s) ==
    IF s # <<>> /\ s[Len(s)] \in Whitespace
    THEN TrimRight(SubSeq(s, 1, Len(s) - 1)) ELSE s

\* String.prototype.trim
Trim(s) == TrimRight(TrimLeft(s))

(***************************************************************************)
(* JSON values and JSON.parse.                                             *)
(* Every value is a record of the same shape; t is its type.               *)
(***************************************************************************)
JNull == [t |-> "null", n |-> 0, s |-> <<>>, a |-> <<>>]

JBool(b) == [t |-> "bool", n |-> IF b THEN 1 ELSE 0, s |-> <<>>, a |-> <<>>]

JNum(n) == [t |-> "num", n |-> n, s |-> <<>>, a |-> <<>>]

JStr(s) == [t |-> "str", n |-> 0, s |-> s, a |-> <<>>]

JArr(a) == [t |-> "arr", n |-> 0, s |-> <<>>, a |-> a]

\* an object is the sequence of its members [k |-> key, v |-> value]
JObj(ms) == [t |-> "obj", n |-> 0, s |-> <<>>, a |-> ms]

\* result of a parsing step: the value and the position after it
POk(v, i) == [ok |-> TRUE, v |-> v, i |-> i]

PFail == [ok |-> FALSE, v |-> JNull, i |-> 0]

RECURSIVE SkipWs(_, _)
SkipWs(s, i) ==
    IF i <= Len(s) /\ s[i] \in Whitespace THEN SkipWs(s, i + 1) ELSE i

RECURSIVE ParseDigits(_, _, _)
ParseDigits(s, i, acc) ==
    IF i <= Len(s) /\ IsDigit(s[i])
    THEN ParseDigits(s, i + 1, acc * 10 + DigitVal(s[i]))
    ELSE POk(JNum(acc), i)

\* a JSON number (non-negative integers; no leading zero)
ParseNumber(s, i) ==
    IF s[i] = "0" THEN POk(JNum(0), i + 1) ELSE ParseDigits(s, i, 0)

\* s[i] is the opening quote of a string literal, which runs to the next
\* quote; a control character or backslash escape in it, or no closing
\* quote, is a syntax error (escapes are outside the modelled alphabet)
ParseString(s, i) ==
    LET quotes == {j \in (i + 1)..Len(s) : s[j] = "\""} IN
    IF quotes = {} THEN PFail
    ELSE LET close == CHOOSE j \in quotes : \A j2 \in quotes : j <= j2 IN
         IF \E j \in (i + 1)..(close - 1) : s[j] \in {"\n", "\t", "\r", "\\"}
         THEN PFail
         ELSE POk(JStr(SubSeq(s, i + 1, close - 1)), close + 1)

ParseLiteral(s, i) ==
    IF MatchAt(s, i, <<"n", "u", "l", "l">>) THEN POk(JNull, i + 4)
    ELSE IF MatchAt(s, i, <<"t", "r", "u", "e">>) THEN POk(JBool(TRUE), i + 4)
    ELSE IF MatchAt(s, i, <<"f", "a", "l", "s", "e">>)
    THEN POk(JBool(FALSE), i + 5)
    ELSE PFail

RECURSIVE ParseValue(_, _), ParseElements(_, _, _), ParseMembers(_, _, _)
ParseValue(s, i) ==
    LET j == SkipWs(s, i) IN
    IF j > Len(s) THEN PFail
    ELSE IF s[j] = "{" THEN
        LET k == SkipWs(s, j + 1) IN
        IF k <= Len(s) /\ s[k] = "}" THEN POk(JObj(<<>>), k + 1)
        ELSE ParseMembers(s, k, <<>>)
    ELSE IF s[j] = "[" THEN
        LET k == SkipWs(s, j + 1) IN
        IF k <= Len(s) /\ s[k] = "]" THEN POk(JArr(<<>>), k + 1)
        ELSE ParseElements(s, k, <<>>)
    ELSE IF s[j] = "\"" THEN ParseString(s, j)
    ELSE IF IsDigit(s[j]) THEN ParseNumber(s, j)
    ELSE ParseLiteral(s, j)

ParseElements(s, i, acc) ==
    LET e == ParseValue(s, i) IN
    IF ~e.ok THEN PFail
    ELSE LET j == SkipWs(s, e.i) IN
         IF j > Len(s) THEN PFail
         ELSE IF s[j] = "," THEN ParseElements(s, j + 1, Append(acc, e.v))
         ELSE IF s[j] = "]" THEN POk(JArr(Append(acc, e.v)), j + 1)
         ELSE PFail

ParseMembers(s, i, acc) ==
    LET j == SkipWs(s, i) IN
    IF j > Len(s) \/ s[j] # "\"" THEN PFail
    ELSE LET key == ParseString(s, j) IN
         IF ~key.ok THEN PFail
         ELSE LET c == SkipWs(s, key.i) IN
              IF c > Len(s) \/ s[c] # ":" THEN PFail
              ELSE LET e == ParseValue(s, c + 1) IN
                   IF ~e.ok THEN PFail
                   ELSE LET m == SkipWs(s, e.i)
                            ms == Append(acc, [k |-> key.v.s, v |-> e.v])
                        IN IF m > Len(s) THEN PFail
                           ELSE IF s[m] = "," THEN ParseMembers(s, m + 1, ms)
                           ELSE IF s[m] = "}" THEN POk(JObj(ms), m + 1)
                           ELSE PFail

\* JSON.parse: one value, nothing but white space after it; a syntax error
\* is ok = FALSE (the SyntaxError that JSON.parse throws)
JSONParse(s) ==
    LET e == ParseValue(s, 1) IN
    IF e.ok /\ SkipWs(s, e.i) > Len(s) THEN e ELSE PFail

\* result?.key : the value of the last member named key, JNull-typed
\* "undefined" when result is not an object or has no such member
HasKey(v, key) == v.t = "obj" /\ \E m \in 1..Len(v.a) : v.a[m].k = key

GetKey(v, key) ==
    v.a[CHOOSE m \in 1..Len(v.a) :
            v.a[m].k = key /\ \A m2 \in (m + 1)..Len(v.a) : v.a[m2].k # key].v

KScore == <<"s", "c", "o", "r", "e">>

KImprovements == <<"i", "m", "p", "r", "o", "v", "e", "m", "e", "n", "t", "s">>

KStrengths == <<"s", "t", "r", "e", "n", "g", "t", "h", "s">>

\* the structure test of processResponse (negated in the source)
ValidStructure(v) ==
    /\ HasKey(v, KScore) /\ GetKey(v, KScore).t = "num"
    /\ HasKey(v, KImprovements) /\ GetKey(v, KImprovements).t = "arr"
    /\ HasKey(v, KStrengths) /\ GetKey(v, KStrengths).t = "arr"

(***************************************************************************)
(* Error values: the message of the Error that is thrown.                  *)
(***************************************************************************)
NotInitialized == "Service not initialized. Call ResumeService.initialize() first."

UnsupportedMediaType == "Only PDF files are supported"

PayloadTooLarge == "File size must be less than 4MB"

InvalidStructure == "Invalid response structure"

ParseFailed == "Failed to parse analysis results"

\* the cleaning step of processResponse
CleanResponse(text) == Trim(ReplaceAll(ReplaceAll(text, FenceJson), Fence))

\* processResponse: every error raised in the try block, the SyntaxError of
\* JSON.parse and the Error(InvalidStructure) alike, is caught by the catch
\* clause, which throws Error(ParseFailed)
processResponse(text) ==
    LET jsonString == CleanResponse(text)
        parsed == JSONParse(jsonString)
        thrown == IF ~parsed.ok THEN "SyntaxError"
                  ELSE IF ~ValidStructure(parsed.v) THEN InvalidStructure
                  ELSE ""
    IN IF thrown = "" THEN [ok |-> TRUE, err |-> "", value |-> parsed.v]
       ELSE [ok |-> FALSE, err |-> ParseFailed, value |-> JNull]

(***************************************************************************)
(* Response texts: what the inference service may answer (response.text).  *)
(***************************************************************************)
RECURSIVE NumChars(_)
NumChars(n) ==
    IF n < 10 THEN <<Digits[n + 1]>>
    ELSE NumChars(n \div 10) \o <<Digits[(n % 10) + 1]>>

RECURSIVE Stringify(_), StringifyAll(_, _, _)
\* the JSON text of a value, without white space
Stringify(v) ==
    IF v.t = "null" THEN <<"n", "u", "l", "l">>
    ELSE IF v.t = "bool"
    THEN (IF v.n = 1 THEN <<"t", "r", "u", "e">> ELSE <<"f", "a", "l", "s", "e">>)
    ELSE IF v.t = "num" THEN NumChars(v.n)
    ELSE IF v.t = "str" THEN <<"\"">> \o v.s \o <<"\"">>
    ELSE IF v.t = "arr" THEN <<"[">> \o StringifyAll(v.a, 1, FALSE) \o <<"]">>
    ELSE <<"{">> \o StringifyAll(v.a, 1, TRUE) \o <<"}">>

StringifyAll(a, i, members) ==
    IF i > Len(a) THEN <<>>
    ELSE (IF i > 1 THEN <<",">> ELSE <<>>)
         \o (IF members
             THEN <<"\"">> \o a[i].k \o <<"\"", ":">> \o Stringify(a[i].v)
             ELSE Stringify(a[i]))
         \o StringifyAll(a, i + 1, members)

\* string values: plain ones and ones holding a code-fence marker sequence
PlainStrings == {<<"a", "b">>, <<"Q", " ", "i">>}

FencedStrings == {<<"a">> \o Fence \o <<"b">>, FenceJson}

StringVals == PlainStrings \cup FencedStrings

Scores == {82, 0}

Improvement(c, g) ==
    JObj(<<[k |-> <<"c", "a", "t", "e", "g", "o", "r", "y">>, v |-> JStr(c)],
           [k |-> <<"s", "u", "g", "g", "e", "s", "t", "i", "o", "n">>,
            v |-> JStr(g)]>>)

ImprovementLists ==
    {<<>>} \cup {<<Improvement(c, <<"Q", " ", "i">>)>> : c \in StringVals}

StrengthLists == {<<>>} \cup {<<JStr(x)>> : x \in StringVals}

Analysis(score, improvements, strengths) ==
    JObj(<<[k |-> KScore, v |-> JNum(score)],
           [k |-> KImprovements, v |-> JArr(improvements)],
           [k |-> KStrengths, v |-> JArr(strengths)]>>)

\* the objects that conform to the response schema (ResumeAnalysisResult)
ConformingValues ==
    {Analysis(sc, im, st) : sc \in Scores, im \in ImprovementLists,
                            st \in StrengthLists}

\* JSON values that parse but fail the structure test
ViolatingValues ==
    { JObj(<<[k |-> KScore, v |-> JStr(<<"h", "i", "g", "h">>)],
             [k |-> KImprovements, v |-> JArr(<<>>)],
             [k |-> KStrengths, v |-> JArr(<<>>)]>>),
      JObj(<<[k |-> KScore, v |-> JNum(82)],
             [k |-> KImprovements, v |-> JObj(<<>>)],
             [k |-> KStrengths, v |-> JArr(<<>>)]>>),
      JObj(<<[k |-> KScore, v |-> JNum(82)],
             [k |-> KImprovements, v |-> JArr(<<>>)],
             [k |-> KStrengths, v |-> JNull]>>),
      JObj(<<[k |-> KScore, v |-> JNum(82)],
             [k |-> KImprovements, v |-> JArr(<<>>)]>>),
      JNull, JNum(5), JArr(<<>>), JBool(TRUE) }

NotJsonText == <<"n", "o", "t", " ", "j", "s", "o", "n">>

\* texts that are not JSON
UnparsableBodies ==
    { NotJsonText, <<>>, <<"{">>,
      <<"{", "\"", "s", "c", "o", "r", "e", "\"", ":", "8", "2", ",", "}">>,
      <<"0", "1">> }

Bodies ==
    {Stringify(v) : v \in ConformingValues \cup ViolatingValues}
        \cup UnparsableBodies

\* a body as it stands, or inside one pair of code-fence markers
Wraps == {"bare", "json-fence", "fence"}

RawText(wrap, body) ==
    IF wrap = "json-fence" THEN FenceJson \o <<"\n">> \o body \o <<"\n">> \o Fence
    ELSE IF wrap = "fence" THEN Fence \o <<"\n">> \o body \o <<"\n">> \o Fence
    ELSE body

(***************************************************************************)
(* Base64 and the data URL of FileReader.readAsDataURL.                    *)
(***************************************************************************)
B64Alphabet ==
    <<"A", "B", "C", "D", "E", "F", "G", "H", "I", "J", "K", "L", "M",
      "N", "O", "P", "Q", "R", "S", "T", "U", "V", "W", "X", "Y", "Z",
      "a", "b", "c", "d", "e", "f", "g", "h", "i", "j", "k", "l", "m",
      "n", "o", "p", "q", "r", "s", "t", "u", "v", "w", "x", "y", "z",
      "0", "1", "2", "3", "4", "5", "6", "7", "8", "9", "+", "/">>

B64Char(n) == B64Alphabet[n + 1]

B64Val(ch) == (CHOOSE n \in 1..64 : B64Alphabet[n] = ch) - 1

RECURSIVE Base64Encode(_)
\* RFC 4648: three bytes to four characters, the last group padded with "="
Base64Encode(b) ==
    IF Len(b) = 0 THEN <<>>
    ELSE IF Len(b) = 1 THEN
        <<B64Char(b[1] \div 4), B64Char((b[1] % 4) * 16), "=", "=">>
    ELSE IF Len(b) = 2 THEN
        <<B64Char(b[1] \div 4), B64Char((b[1] % 4) * 16 + b[2] \div 16),
          B64Char((b[2] % 16) * 4), "=">>
    ELSE <<B64Char(b[1] \div 4), B64Char((b[1] % 4) * 16 + b[2] \div 16),
           B64Char((b[2] % 16) * 4 + b[3] \div 64), B64Char(b[3] % 64)>>
         \o Base64Encode(SubSeq(b, 4, Len(b)))

RECURSIVE Base64Decode(_)
\* the bytes of a padded base64 text (atob)
Base64Decode(t) ==
    IF Len(t) < 4 THEN <<>>
    ELSE LET v1 == B64Val(t[1])
             v2 == B64Val(t[2])
         IN IF t[3] = "=" THEN <<v1 * 4 + v2 \div 16>>
            ELSE LET v3 == B64Val(t[3]) IN
                 IF t[4] = "="
                 THEN <<v1 * 4 + v2 \div 16, (v2 % 16) * 16 + v3 \div 4>>
                 ELSE <<v1 * 4 + v2 \div 16, (v2 % 16) * 16 + v3 \div 4,
                        (v3 % 4) * 64 + B64Val(t[4])>>
                      \o Base64Decode(SubSeq(t, 5, Len(t)))

PdfType == "application/pdf"

\* the characters of a media type
TypeChars(type) ==
    IF type = PdfType
    THEN <<"a", "p", "p", "l", "i", "c", "a", "t", "i", "o", "n", "/",
           "p", "d", "f">>
    ELSE <<"t", "e", "x", "t", "/", "p", "l", "a", "i", "n">>

DataScheme == <<"d", "a", "t", "a", ":">>

Base64Marker == <<";", "b", "a", "s", "e", "6", "4", ",">>

\* reader.result after readAsDataURL: the set of results the platforms
\* produce.  For a blob of zero bytes the engines differ: Gecko and WebKit
\* give the full form with an empty payload, Blink gives the bare "data:".
readAsDataURL(bytes, type) ==
    {DataScheme \o TypeChars(type) \o Base64Marker \o Base64Encode(bytes)}
        \cup (IF Len(bytes) = 0 THEN {DataScheme} ELSE {})

RECURSIVE Split(_, _)
\* String.prototype.split with a one-character separator
Split(s, sep) ==
    LET at == {j \in 1..Len(s) : s[j] = sep} IN
    IF at = {} THEN <<s>>
    ELSE LET j == CHOOSE m \in at : \A m2 \in at : m <= m2 IN
         <<SubSeq(s, 1, j - 1)>> \o Split(SubSeq(s, j + 1, Len(s)), sep)

\* a string or undefined
Defined(s) == [def |-> TRUE, s |-> s]

Undefined == [def |-> FALSE, s |-> <<>>]

\* the onload handler of fileToBase64: result.split(',')[1]
fileToBase64(dataURL) ==
    LET parts == Split(dataURL, ",") IN
    IF Len(parts) >= 2 THEN Defined(parts[2]) ELSE Undefined

(***************************************************************************)
(* State.                                                                  *)
(***************************************************************************)
VARIABLES
    ai,          \* ResumeService.ai is set (initialize has been called)
    calls,       \* the calls of analyzeResume / analyzeResumeFromUrl in flight
    file,        \* ResumeCheckerApp: useState file
    isLoading,   \* ResumeCheckerApp: useState isLoading
    result,      \* ResumeCheckerApp: useState result
    error,       \* ResumeCheckerApp: useState error
    submitted,   \* the file captured by the handleSubmit that is awaiting
    nwrap,       \* processResponse alone: how the text is wrapped
    nbody,       \* processResponse alone: the text between the markers
    nresult,     \* processResponse alone: what it returned or threw
    edoc,        \* fileToBase64 alone: the bytes of the document
    epc,         \* fileToBase64 alone: position of the read
    eresult      \* fileToBase64 alone: the value the promise resolved with

serviceVars == <<ai, calls>>

appVars == <<file, isLoading, result, error, submitted>>

normVars == <<nwrap, nbody, nresult>>

encVars == <<edoc, epc, eresult>>

vars == <<ai, calls, file, isLoading, result, error, submitted,
          nwrap, nbody, nresult, edoc, epc, eresult>>

(***************************************************************************)
(* Documents.  A document is its name, declared media type and byte        *)
(* length; its content is followed only in the encoder's specification.    *)
(***************************************************************************)
\* 4 * 1024 * 1024, the limit of analyzeResume
MaxFileSize == 4 * 1024 * 1024

Types == {PdfType, "text/plain"}

Sizes == {0, MaxFileSize, MaxFileSize + 1, 5 * 1024 * 1024}

NoDoc == [name |-> "", type |-> "", size |-> 0]

\* the File objects a caller may pass
Files == [name : {"a", "b"}, type : Types, size : Sizes]

\* the Blob objects a fetched response may hold
Blobs == [name : {"blob"}, type : Types, size : Sizes]

Statuses == {200, 404, 500}

\* a test that takes only a server error for a failure
ResponseOkBelow500(status) == status < 500

\* Response.ok
ResponseOk(status) == status >= 200 /\ status <= 299

\* the texts the inference service answers with in the pipeline
ResponseTexts ==
    { RawText("bare", Stringify(Analysis(82, <<>>, <<JStr(<<"a", "b">>)>>))),
      RawText("json-fence", Stringify(Analysis(0, <<>>, <<>>))),
      RawText("bare", Stringify(JObj(<<[k |-> KScore, v |-> JStr(<<"h", "i", "g", "h">>)],
                                       [k |-> KImprovements, v |-> JArr(<<>>)],
                                       [k |-> KStrengths, v |-> JArr(<<>>)]>>))),
      NotJsonText }

NotPdfUrl == "URL does not point to a PDF file"

\* the Error thrown for a response that is not ok
FetchStatusError(status) ==
    IF status = 404 THEN "Failed to fetch PDF: 404"
    ELSE IF status = 500 THEN "Failed to fetch PDF: 500"
    ELSE "Failed to fetch PDF"

\* rejections that come from outside the service: fetch / blob, the
\* FileReader's error event, the inference client
TransportError == "TypeError: Failed to fetch"

ReadError == "ProgressEvent: error"

RemoteError == "ApiError"

NoRequest == [mimeType |-> "", size |-> 0, data |-> FALSE]

IdleCall ==
    [pc |-> "idle", kind |-> "none", doc |-> NoDoc, status |-> 0,
     reads |-> 0, reqs |-> 0, req |-> NoRequest,
     ok |-> FALSE, err |-> "", value |-> JNull]

CallIds == 1..MaxCalls

\* the promise of a call settles: fulfilled with a value or rejected
Fulfilled(call, v) == [call EXCEPT !.pc = "done", !.ok = TRUE, !.value = v]

Rejected(call, e) == [call EXCEPT !.pc = "done", !.ok = FALSE, !.err = e]

(***************************************************************************)
(* ResumeService.                                                          *)
(***************************************************************************)
initialize ==
    /\ ai' = TRUE
    /\ UNCHANGED <<calls, appVars, normVars, encVars>>

\* a test that takes any declared media type
IsPdfAnyType(doc) == doc.type # ""

\* the two tests of analyzeResume
IsPdf(doc) == doc.type = PdfType

\* a limit that is exclusive
WithinLimitExclusive(doc) == doc.size < MaxFileSize

WithinLimit(doc) == ~(doc.size > MaxFileSize)

\* a test that never fails
InitializedUnchecked(a) == TRUE

\* the test at the head of analyzeWithGemini
Initialized(a) == a

\* analyzeWithGemini up to its first await: the Error it throws, or ""
\* when it goes on to fileToBase64 and calls reader.readAsDataURL
analyzeWithGeminiEntry(a) == IF ~Initialized(a) THEN NotInitialized ELSE ""

\* analyzeResume up to the first await
analyzeResumeEntry(a, doc) ==
    IF ~IsPdf(doc) THEN UnsupportedMediaType
    ELSE IF ~WithinLimit(doc) THEN PayloadTooLarge
    ELSE analyzeWithGeminiEntry(a)

\* the call after the synchronous part of analyzeWithGemini
EnterGemini(call, a) ==
    IF analyzeWithGeminiEntry(a) # ""
    THEN Rejected(call, analyzeWithGeminiEntry(a))
    ELSE [call EXCEPT !.pc = "reading", !.reads = @ + 1]

\* analyzeResume(f) is called
analyzeResume(c, f) ==
    /\ calls[c].pc = "idle"
    /\ LET started == [IdleCall EXCEPT !.kind = "file", !.doc = f] IN
       calls' = [calls EXCEPT ![c] =
                    IF analyzeResumeEntry(ai, f) # ""
                    THEN Rejected(started, analyzeResumeEntry(ai, f))
                    ELSE EnterGemini(started, ai)]
    /\ UNCHANGED <<ai, appVars, normVars, encVars>>

\* analyzeResumeFromUrl(url) is called: fetch(url) is issued
analyzeResumeFromUrl(c) ==
    /\ calls[c].pc = "idle"
    /\ calls' = [calls EXCEPT ![c] =
                    [IdleCall EXCEPT !.kind = "url", !.pc = "fetching"]]
    /\ UNCHANGED <<ai, appVars, normVars, encVars>>

\* fetch resolves with a response; one that is ok goes on to response.blob()
FetchResolve(c, status) ==
    /\ calls[c].pc = "fetching"
    /\ LET got == [calls[c] EXCEPT !.status = status] IN
       calls' = [calls EXCEPT ![c] =
                    IF ~ResponseOk(status)
                    THEN Rejected(got, FetchStatusError(status))
                    ELSE [got EXCEPT !.pc = "blobbing"]]
    /\ UNCHANGED <<ai, appVars, normVars, encVars>>

\* fetch, or the reading of the body by response.blob(), rejects
FetchReject(c) ==
    /\ calls[c].pc \in {"fetching", "blobbing"}
    /\ calls' = [calls EXCEPT ![c] = Rejected(calls[c], TransportError)]
    /\ UNCHANGED <<ai, appVars, normVars, encVars>>

\* response.blob() resolves: the type test, then analyzeWithGemini(blob)
BlobResolve(c, blob) ==
    /\ calls[c].pc = "blobbing"
    /\ LET got == [calls[c] EXCEPT !.doc = blob] IN
       calls' = [calls EXCEPT ![c] =
                    IF ~IsPdf(blob) THEN Rejected(got, NotPdfUrl)
                    ELSE EnterGemini(got, ai)]
    /\ UNCHANGED <<ai, appVars, normVars, encVars>>

\* whether the encoder's text is a string: computed for the empty document,
\* whose content is known; a longer document has a non-empty payload
EncodedData(doc) ==
    IF doc.size = 0
    THEN {fileToBase64(u).def : u \in readAsDataURL(<<>>, doc.type)}
    ELSE {TRUE}

\* reader.onload: the promise of fileToBase64 resolves and analyzeWithGemini
\* calls generateContent with the document inline
ReaderOnLoad(c, data) ==
    /\ calls[c].pc = "reading"
    /\ data \in EncodedData(calls[c].doc)
    /\ calls' = [calls EXCEPT ![c] =
                    [@ EXCEPT !.pc = "inferring", !.reqs = @ + 1,
                              !.req = [mimeType |-> calls[c].doc.type,
                                       size |-> calls[c].doc.size,
                                       data |-> data]]]
    /\ UNCHANGED <<ai, appVars, normVars, encVars>>

\* reader.onerror = reject
ReaderOnError(c) ==
    /\ calls[c].pc = "reading"
    /\ calls' = [calls EXCEPT ![c] = Rejected(calls[c], ReadError)]
    /\ UNCHANGED <<ai, appVars, normVars, encVars>>

\* the settled call after generateContent answered with text
Processed(call, text) ==
    IF processResponse(text).ok
    THEN Fulfilled(call, processResponse(text).value)
    ELSE Rejected(call, processResponse(text).err)

\* generateContent resolves: return this.processResponse(response.text)
GenerateContentResolve(c, text) ==
    /\ calls[c].pc = "inferring"
    /\ calls' = [calls EXCEPT ![c] = Processed(calls[c], text)]
    /\ UNCHANGED <<ai, appVars, normVars, encVars>>

\* a client that issues the request again when it fails
GenerateContentRejectRetry(c) ==
    /\ calls[c].pc = "inferring"
    /\ calls' = [calls EXCEPT ![c] = [@ EXCEPT !.reqs = @ + 1]]
    /\ UNCHANGED <<ai, appVars, normVars, encVars>>

\* generateContent rejects; the error is rethrown to the caller
GenerateContentReject(c) ==
    /\ calls[c].pc = "inferring"
    /\ calls' = [calls EXCEPT ![c] = Rejected(calls[c], RemoteError)]
    /\ UNCHANGED <<ai, appVars, normVars, encVars>>

\* the caller has taken the outcome of a settled call
Settle(c) ==
    /\ calls[c].pc = "done"
    /\ calls' = [calls EXCEPT ![c] = IdleCall]
    /\ UNCHANGED <<ai, appVars, normVars, encVars>>

(***************************************************************************)
(* ResumeCheckerApp.                                                       *)
(***************************************************************************)
\* the result state: null, or an analysis together with the file whose
\* submission produced it
NoResult == [of |-> NoDoc, value |-> JNull]

PdfOnlyMessage == "Please upload a PDF file only"

SelectFirstMessage == "Please select a PDF file first"

GenericMessage == "An error occurred while analyzing your resume. Please try again."

\* the call slot that the component's submission runs in
AppCall == 1

\* onChange of the file input; selected is NoDoc when no file was chosen
handleFileChange(selected) ==
    /\ result' = NoResult
    /\ IF selected = NoDoc THEN error' = "" /\ file' = file
       ELSE IF selected.type # PdfType
       THEN error' = PdfOnlyMessage /\ file' = file
       ELSE error' = "" /\ file' = selected
    /\ UNCHANGED <<isLoading, submitted, serviceVars, normVars, encVars>>

\* the submit button is disabled while no file is held or a submission runs
SubmitEnabled == ~(file = NoDoc \/ isLoading)

\* onSubmit of the form, up to the await; a call that throws before its
\* first await rejects at once and the catch and finally clauses run before
\* any other event
handleSubmit ==
    /\ SubmitEnabled
    /\ calls[AppCall].pc = "idle"
    /\ IF file = NoDoc
       THEN /\ error' = SelectFirstMessage
            /\ UNCHANGED <<isLoading, submitted, calls>>
       ELSE IF analyzeResumeEntry(ai, file) # ""
       THEN /\ error' = GenericMessage
            /\ isLoading' = FALSE
            /\ UNCHANGED <<submitted, calls>>
       ELSE /\ error' = ""
            /\ isLoading' = TRUE
            /\ submitted' = file
            /\ calls' = [calls EXCEPT ![AppCall] =
                  EnterGemini([IdleCall EXCEPT !.kind = "file", !.doc = file],
                              ai)]
    /\ UNCHANGED <<file, result, ai, normVars, encVars>>

\* the await of handleSubmit returns or throws: setResult or setError, then
\* the finally clause
handleSubmitResume ==
    /\ submitted # NoDoc
    /\ calls[AppCall].pc = "done"
    /\ IF calls[AppCall].ok
       THEN /\ result' = [of |-> submitted, value |-> calls[AppCall].value]
            /\ error' = error
       ELSE /\ error' = GenericMessage
            /\ result' = result
    /\ isLoading' = FALSE
    /\ submitted' = NoDoc
    /\ calls' = [calls EXCEPT ![AppCall] = IdleCall]
    /\ UNCHANGED <<file, ai, normVars, encVars>>

(***************************************************************************)
(* processResponse and fileToBase64 run on their own.                      *)
(***************************************************************************)
NotRun == [run |-> FALSE, ok |-> FALSE, err |-> "", value |-> JNull]

\* the raw text handed to processResponse
ntext == RawText(nwrap, nbody)

Normalize ==
    /\ ~nresult.run
    /\ nresult' = [run |-> TRUE, ok |-> processResponse(ntext).ok,
                   err |-> processResponse(ntext).err,
                   value |-> processResponse(ntext).value]
    /\ UNCHANGED <<nwrap, nbody, serviceVars, appVars, encVars>>

\* the byte values documents are made of
ByteVals == {0, 37, 255}

Documents == UNION {[1..k -> ByteVals] : k \in 0..MaxDocLen}

\* fileToBase64(file): reader.readAsDataURL(file) is called
EncodeStart ==
    /\ epc = "idle"
    /\ epc' = "reading"
    /\ UNCHANGED <<edoc, eresult, serviceVars, appVars, normVars>>

\* reader.onload
EncodeOnLoad(dataURL) ==
    /\ epc = "reading"
    /\ dataURL \in readAsDataURL(edoc, PdfType)
    /\ epc' = "resolved"
    /\ eresult' = fileToBase64(dataURL)
    /\ UNCHANGED <<edoc, serviceVars, appVars, normVars>>

\* reader.onerror
EncodeOnError ==
    /\ epc = "reading"
    /\ epc' = "rejected"
    /\ UNCHANGED <<edoc, eresult, serviceVars, appVars, normVars>>

(***************************************************************************)
(* Specifications.                                                         *)
(***************************************************************************)
InitService == ai = FALSE /\ calls = [c \in CallIds |-> IdleCall]

InitApp ==
    /\ file = NoDoc
    /\ isLoading = FALSE
    /\ result = NoResult
    /\ error = ""
    /\ submitted = NoDoc

InitNorm == nwrap = "bare" /\ nbody = <<>> /\ nresult = NotRun

InitEnc == edoc = <<>> /\ epc = "idle" /\ eresult = Undefined

\* the service, called directly
Init == InitService /\ InitApp /\ InitNorm /\ InitEnc

Next ==
    \/ initialize
    \/ \E c \in CallIds, f \in {d \in Files : d.name = "a"} : analyzeResume(c, f)
    \/ \E c \in CallIds : analyzeResumeFromUrl(c)
    \/ \E c \in CallIds, status \in Statuses : FetchResolve(c, status)
    \/ \E c \in CallIds : FetchReject(c)
    \/ \E c \in CallIds, blob \in Blobs : BlobResolve(c, blob)
    \/ \E c \in CallIds, data \in BOOLEAN : ReaderOnLoad(c, data)
    \/ \E c \in CallIds : ReaderOnError(c)
    \/ \E c \in CallIds, text \in ResponseTexts : GenerateContentResolve(c, text)
    \/ \E c \in CallIds : GenerateContentReject(c)
    \/ \E c \in CallIds : Settle(c)

Spec == Init /\ [][Next]_vars

\* the component, which calls the service
NextApp ==
    \/ initialize
    \/ \E selected \in Files \cup {NoDoc} : handleFileChange(selected)
    \/ handleSubmit
    \/ \E data \in BOOLEAN : ReaderOnLoad(AppCall, data)
    \/ ReaderOnError(AppCall)
    \/ \E text \in ResponseTexts : GenerateContentResolve(AppCall, text)
    \/ GenerateContentReject(AppCall)
    \/ handleSubmitResume

SpecApp == Init /\ [][NextApp]_vars

\* processResponse applied to every text of the family
InitNormalize ==
    /\ InitService /\ InitApp /\ InitEnc
    /\ nwrap \in Wraps
    /\ nbody \in Bodies
    /\ nresult = NotRun

NextNormalize == Normalize

SpecNormalize == InitNormalize /\ [][NextNormalize]_vars

\* fileToBase64 applied to every document of application/pdf up to MaxDocLen
InitEncode ==
    /\ InitService /\ InitApp /\ InitNorm
    /\ edoc \in Documents
    /\ epc = "idle"
    /\ eresult = Undefined

NextEncode ==
    \/ EncodeStart
    \/ \E dataURL \in readAsDataURL(edoc, PdfType) : EncodeOnLoad(dataURL)
    \/ EncodeOnError

SpecEncode == InitEncode /\ [][NextEncode]_vars

(***************************************************************************)
(* Properties.                                                             *)
(***************************************************************************)
\* the calls of analyzeResume that have been made and not yet taken
FileCalls == {c \in CallIds : calls[c].kind = "file"}

UrlCalls == {c \in CallIds : calls[c].kind = "url"}

\* C1 (as stated): while initialize has not been called, every call of
\* analyzeResume has been rejected with NotInitialized, whatever the
\* document, and has issued no inference request.
C1_NotInitializedForEveryInput ==
    ~ai => \A c \in FileCalls :
               /\ calls[c].pc = "done"
               /\ calls[c].err = NotInitialized
               /\ calls[c].reqs = 0

\* C1 (amended): while initialize has not been called, no call has issued an
\* inference request, and every call of analyzeResume has been rejected:
\* with UnsupportedMediaType for a non-PDF document, with PayloadTooLarge
\* for a PDF document over 4 MiB, with NotInitialized for the others.
C1_NotInitializedAfterValidation ==
    ~ai => /\ \A c \in CallIds : calls[c].reqs = 0
           /\ \A c \in FileCalls :
                 /\ calls[c].pc = "done"
                 /\ ~calls[c].ok
                 /\ calls[c].err =
                       IF calls[c].doc.type # PdfType THEN UnsupportedMediaType
                       ELSE IF calls[c].doc.size > MaxFileSize
                       THEN PayloadTooLarge
                       ELSE NotInitialized

C1_Witness ==
    /\ ~ai
    /\ \E c \in FileCalls : calls[c].err = NotInitialized
    /\ \E c \in FileCalls : calls[c].err = UnsupportedMediaType

\* C2: every inference request that has been issued, by analyzeResume or by
\* analyzeResumeFromUrl, carries a document of media type application/pdf
\* and of at most 4 MiB.
C2_RequestCarriesValidDocument ==
    \A c \in CallIds :
        calls[c].reqs > 0 =>
            /\ calls[c].req.mimeType = PdfType
            /\ calls[c].req.size <= MaxFileSize

\* does the cleaned text parse as JSON
Parses(text) == JSONParse(CleanResponse(text)).ok

\* C3: processResponse reports a text that does not parse with the error of
\* the parse failure and a text that parses but fails the structure test
\* with the error of the structure test, two different error values.
C3_FailuresDistinguishable ==
    (nresult.run /\ ~nresult.ok) =>
        /\ ParseFailed # InvalidStructure
        /\ ~Parses(ntext) => nresult.err = ParseFailed
        /\ Parses(ntext) => nresult.err = InvalidStructure

\* C4: analyzeResume does not reject a PDF document of exactly 4 MiB for its
\* size or type and goes on to read it once the service is initialized; it
\* rejects every PDF document over 4 MiB with PayloadTooLarge, without
\* reading it or issuing an inference request.
C4_SizeLimit ==
    \A c \in FileCalls :
        calls[c].doc.type = PdfType =>
            /\ calls[c].doc.size > MaxFileSize =>
                  /\ calls[c].pc = "done"
                  /\ ~calls[c].ok
                  /\ calls[c].err = PayloadTooLarge
                  /\ calls[c].reads = 0
                  /\ calls[c].reqs = 0
            /\ calls[c].doc.size = MaxFileSize =>
                  /\ calls[c].err \notin {PayloadTooLarge, UnsupportedMediaType}
                  /\ calls[c].err # NotInitialized => calls[c].reads = 1

C4_Witness ==
    /\ \E c \in FileCalls :
          /\ calls[c].doc.type = PdfType
          /\ calls[c].doc.size = MaxFileSize
          /\ calls[c].reqs = 1
    /\ \E c \in FileCalls :
          /\ calls[c].doc.type = PdfType
          /\ calls[c].doc.size = MaxFileSize + 1
          /\ calls[c].err = PayloadTooLarge

\* C5: a call of analyzeResume with a document that is not application/pdf
\* is rejected with UnsupportedMediaType, whatever the size, and neither
\* reads the document nor issues an inference request.
C5_NonPdfRejected ==
    \A c \in FileCalls :
        calls[c].doc.type # PdfType =>
            /\ calls[c].pc = "done"
            /\ ~calls[c].ok
            /\ calls[c].err = UnsupportedMediaType
            /\ calls[c].reads = 0
            /\ calls[c].reqs = 0

C5_Witness ==
    /\ \E c \in FileCalls :
          calls[c].doc.type # PdfType /\ calls[c].doc.size > MaxFileSize
             /\ calls[c].pc = "done"
    /\ \E c \in FileCalls :
          calls[c].doc.type # PdfType /\ calls[c].doc.size = 0
             /\ calls[c].pc = "done" /\ ai

\* the errors of a call that ends before the inference request
EarlyErrors ==
    {UnsupportedMediaType, PayloadTooLarge, NotInitialized, NotPdfUrl,
     ReadError, TransportError} \cup {FetchStatusError(st) : st \in Statuses}

\* C6: a call issues at most one inference request: none before the
\* document has been read, exactly one from then on, and a call that has
\* ended has issued one exactly when validation, initialization and
\* encoding succeeded.
C6_AtMostOneRequest ==
    \A c \in CallIds :
        /\ calls[c].reqs <= 1
        /\ calls[c].pc \in {"idle", "fetching", "blobbing", "reading"}
              => calls[c].reqs = 0
        /\ calls[c].pc = "inferring" => calls[c].reqs = 1
        /\ calls[c].pc = "done" =>
              IF ~calls[c].ok /\ calls[c].err \in EarlyErrors
              THEN calls[c].reqs = 0
              ELSE calls[c].reqs = 1 /\ calls[c].reads = 1

C6_Witness ==
    /\ \E c \in FileCalls :
          calls[c].pc = "done" /\ calls[c].err = RemoteError
             /\ calls[c].reqs = 1
    /\ \E c \in UrlCalls :
          calls[c].pc = "done" /\ calls[c].err = ParseFailed
             /\ calls[c].reqs = 1

\* C7: for a schema-conforming JSON object, bare or inside one pair of
\* code-fence markers, processResponse returns the object obtained by
\* parsing the text between the markers, string values unchanged.
C7_OnlySurroundingMarkersRemoved ==
    (nresult.run /\ JSONParse(nbody).ok /\ ValidStructure(JSONParse(nbody).v))
        => nresult.ok /\ nresult.value = JSONParse(nbody).v

FetchFailures == {TransportError} \cup {FetchStatusError(st) : st \in Statuses}

\* C8: in analyzeResumeFromUrl a response with a status outside 200..299,
\* or a rejected fetch, ends the call with a fetch failure and without an
\* inference request; a request is issued only for a response that was ok
\* and a blob whose type is application/pdf.
C8_FetchBeforeInference ==
    \A c \in UrlCalls :
        /\ (calls[c].status # 0 /\ ~(calls[c].status \in 200..299)) =>
              /\ calls[c].pc = "done"
              /\ calls[c].err \in FetchFailures
              /\ calls[c].reqs = 0
        /\ calls[c].err = TransportError =>
              calls[c].pc = "done" /\ calls[c].reqs = 0 /\ calls[c].reads = 0
        /\ (calls[c].reqs > 0 \/ calls[c].reads > 0) =>
              /\ calls[c].status \in 200..299
              /\ calls[c].doc.type = PdfType

C8_Witness ==
    /\ \E c \in UrlCalls : calls[c].status = 404 /\ calls[c].pc = "done"
    /\ \E c \in UrlCalls : calls[c].status = 200 /\ calls[c].reqs = 1

\* C9: the text fileToBase64 resolves with is the base64 payload of the
\* document: it is a string, and decoding it gives the document's bytes.
C9_RoundTrip ==
    epc = "resolved" => eresult.def /\ Base64Decode(eresult.s) = edoc

\* C10: whenever the result state is not null, it is the analysis of the
\* file held in the file state.
C10_ResultOfCurrentFile ==
    result # NoResult => result.of = file

====
